---- MODULE Spec2Model ----
(***************************************************************************)
(* Model of cameto (src/main.cpp): a pointer-chasing micro-benchmark that  *)
(* infers the size and the line size of the L1 data cache.                 *)
(*                                                                         *)
(* The program is a pipeline of pure functions over vectors.  Each         *)
(* function is an operator computed the way the code's loops compute it,   *)
(* and each has a specification that draws its inputs in Init and applies  *)
(* it:                                                                     *)
(*   SpecBuf     mkTestBuffer, touchTestBuffer                             *)
(*   SpecProbe   tryCacheLevelSizes                                        *)
(*   SpecSelect  selectCacheSize                                           *)
(*   SpecLine    calcCacheLineSize (with touchTestBufferTimed)             *)
(* A slot's address &buffer[k] is modelled by its index k, nullptr by Null.*)
(***************************************************************************)
EXTENDS Integers, Sequences, FiniteSets, TLC

VARIABLES
    pc,             \* position in the function under execution
    size,           \* slot count of the buffer being built / probed
    step,           \* stride handed to mkTestBuffer / loop variable of calcCacheLineSize
    buffer,         \* std::vector<void*>: slot index -> stored slot index or Null
    touches,        \* argument nTouches of touchTestBuffer(Timed)
    pos,            \* final value of pos in touchTestBuffer
    ret,            \* value returned by the function under execution
    minSizeBytes,   \* arguments of tryCacheLevelSizes
    maxSizeBytes,
    clockKnee,      \* synthetic clock: slot count above which a pass is slow
    hops,           \* pointer hops performed by the last bulk traversal
    infos,          \* std::vector<RawLevelInfo>
    windowSize,     \* argument of selectCacheSize
    diffs,          \* selectCacheSize: differenced records; calcCacheLineSize: jumps
    windowed,       \* selectCacheSize: windowed sums
    cacheSizeBytes, \* argument of calcCacheLineSize
    lastMaxJump,    \* calcCacheLineSize
    times,          \* per-hop durations of the last timed traversal
    tried,          \* strides for which calcCacheLineSize built and walked a buffer
    maxJumps,       \* the value of max read at each of those strides
    ub              \* an undefined read has happened ("" when none)

vars == <<pc, size, step, buffer, touches, pos, ret, minSizeBytes, maxSizeBytes,
          clockKnee, hops, infos, windowSize, diffs, windowed, cacheSizeBytes,
          lastMaxJump, times, tried, maxJumps, ub>>

----------------------------------------------------------------------------
(* Bounds of the model                                                     *)

MaxSize == 6        \* SpecBuf: slot counts 1..MaxSize, strides 1..MaxSize
MaxTouches == 8     \* SpecBuf: hop counts 0..MaxTouches

----------------------------------------------------------------------------
(* Program constants and arithmetic                                        *)

\* sizeof(void*) on the LP64 targets the program is written for
WordSize == 8

\* nullptr: the value of a value-initialised void* slot
Null == -1

\* the largest long long, lastMaxJump's "no previous stride" mark; only its
\* being distinct from every measured jump is used
LLongMax == 2147483647

\* size_t arithmetic wraps modulo SizeModulus.  The real modulus is 2^64; the
\* model's is the largest power of two whose sums stay in TLC's integers, and,
\* like 2^64, it exceeds every vector length that occurs.
SizeModulus == 1073741824

\* size_t subtraction
SizeSub(a, b) == (a - b) % SizeModulus

\* C++ integer division, truncating toward zero (b > 0)
CDiv(a, b) == IF a >= 0 THEN a \div b ELSE -((-a) \div b)

Max(a, b) == IF a < b THEN b ELSE a

\* vectors are 0-based in the code and 1-based sequences here
At(v, k) == v[k + 1]

----------------------------------------------------------------------------
(* mkTestBuffer (src/main.cpp:16-24)                                       *)

\* the mutant leaves out the link back to the entry slot
LinkSlotsNoClose(buf, i, j, sz) == [buf EXCEPT ![i] = j]

\* body of the loop: buffer[i] = &buffer[j]; buffer[j] = &buffer[size - 1];
LinkSlots(buf, i, j, sz) == [[buf EXCEPT ![i] = j] EXCEPT ![j] = sz - 1]

\* for (long long i = size - 1, j = size - 1 - step; j >= 0; i = j, j -= step)
RECURSIVE MkLoop(_, _, _, _, _)
MkLoop(buf, i, j, sz, st) ==
    IF j >= 0 THEN MkLoop(LinkSlots(buf, i, j, sz), j, j - st, sz, st)
    ELSE buf

\* std::vector<void *> buffer(size): size null slots, then the loop
MkTestBuffer(sz, st) ==
    MkLoop([k \in 0 .. sz - 1 |-> Null], sz - 1, sz - 1 - st, sz, st)

----------------------------------------------------------------------------
(* touchTestBuffer (src/main.cpp:26-32)                                    *)

\* for (i = 0; i < nTouches; ++i) pos = *pos;  a null pos cannot be followed
RECURSIVE TouchLoop(_, _, _)
TouchLoop(buf, p, n) ==
    IF n = 0 THEN p
    ELSE IF p = Null THEN Null
    ELSE TouchLoop(buf, buf[p], n - 1)

\* buffer.size()
BufSize(buf) == Cardinality(DOMAIN buf)

\* size_t **pos = (size_t **) buffer[buffer.size() - 1]; then the loop.  The
\* result is Null exactly when a null pos is dereferenced, in the loop or by the
\* final "return *pos".
TouchPos(buf, n) == TouchLoop(buf, buf[BufSize(buf) - 1], n)

----------------------------------------------------------------------------
(* Values of the variables a specification does not use                    *)

IdleBuf == /\ size = 0 /\ step = 0 /\ buffer = <<>> /\ touches = 0 /\ pos = Null
IdleProbe == /\ minSizeBytes = 0 /\ maxSizeBytes = 0 /\ clockKnee = 0 /\ hops = 0
IdleSelect == /\ infos = <<>> /\ windowSize = 0 /\ diffs = <<>> /\ windowed = <<>>
IdleLine ==
    /\ cacheSizeBytes = 0 /\ lastMaxJump = 0 /\ times = <<>>
    /\ tried = <<>> /\ maxJumps = <<>>

probeVars == <<minSizeBytes, maxSizeBytes, clockKnee, hops>>
selectVars == <<infos, windowSize, diffs, windowed>>
lineVars == <<cacheSizeBytes, lastMaxJump, times, tried, maxJumps>>

----------------------------------------------------------------------------
(* SpecBuf: build a buffer, then walk it                                   *)

InitBuf ==
    /\ pc = "mkTestBuffer"
    /\ size \in 1 .. MaxSize
    /\ step \in 1 .. MaxSize
    /\ touches \in 0 .. MaxTouches
    /\ buffer = <<>> /\ pos = Null /\ ret = Null /\ ub = ""
    /\ IdleProbe /\ IdleSelect /\ IdleLine

\* const auto buffer = mkTestBuffer(size, step);
BufBuild ==
    /\ pc = "mkTestBuffer"
    /\ buffer' = MkTestBuffer(size, step)
    /\ pc' = "touchTestBuffer"
    /\ UNCHANGED <<size, step, touches, pos, ret, ub, probeVars, selectVars, lineVars>>

\* touchTestBuffer(buffer, nTouches)
BufTouch ==
    /\ pc = "touchTestBuffer"
    /\ LET p == TouchPos(buffer, touches) IN
        IF p = Null
        THEN /\ ub' = "null_deref" /\ pc' = "fault" /\ UNCHANGED <<pos, ret>>
        ELSE /\ pos' = p /\ ret' = buffer[p] /\ pc' = "done" /\ UNCHANGED ub
    /\ UNCHANGED <<size, step, buffer, touches, probeVars, selectVars, lineVars>>

NextBuf == BufBuild \/ BufTouch

SpecBuf == InitBuf /\ [][NextBuf]_vars

----------------------------------------------------------------------------
(* Claims about the buffer                                                 *)

\* the slot reached from slot p after n hops along the stored links
RECURSIVE Follow(_, _, _)
Follow(buf, p, n) ==
    IF n = 0 \/ p = Null THEN p ELSE Follow(buf, buf[p], n - 1)

Built == pc \in {"touchTestBuffer", "done", "fault"}

\* number of slots mkTestBuffer links: size-1, size-1-step, ... down to >= 0
ChainLen == ((size - 1) \div step) + 1

----------------------------------------------------------------------------
(* tryCacheLevelSizes (src/main.cpp:53-77)                                 *)

\* const size_t KB = 1024;
KB == 1024

\* const size_t nTouches = 1000000;
nTouches == 1000000

\* the mutant passes the unclamped quotient
ProbeStrideNoClamp(sz) == sz \div nTouches

\* step = size / nTouches; the stride passed on is std::max(size_t(1), step)
ProbeStride(sz) == Max(1, sz \div nTouches)

\* the mutant stops one size short
ProbeContinuesStrict(sz, maxSize) == sz < maxSize

\* loop condition: size <= maxSize
ProbeContinues(sz, maxSize) == sz <= maxSize

\* j = size - 1 - step < 0 on entry to mkTestBuffer's loop: no slot is linked
\* and buffer[size - 1] stays null, so touchTestBuffer dereferences nullptr.
\* (The buffers probed here have up to millions of slots and are walked a
\* million hops; SpecBuf checks the linking and the walk on small buffers.)
ChainDegenerate(sz, st) == sz - 1 - st < 0

\* the elapsed time of a timed pass, from a synthetic two-level clock: a pass
\* over more than clockKnee slots is slow
ClockNanos == <<100, 900>>
Clock(sz, knee) == IF sz > knee THEN ClockNanos[2] ELSE ClockNanos[1]

\* RawLevelInfo
RawLevelInfo(bytes, nanos) == [arraySizeBytes |-> bytes, timeNanos |-> nanos]

\* largest maxSizeBytes of the small probing ranges
MaxProbeBytes == 64

\* the call main makes, a range whose buffers exceed nTouches slots, and small
\* ranges, among them minSizeBytes below one word and not a multiple of a word
ProbeInputs ==
    {<<8 * KB, 256 * KB>>, <<8 * nTouches, 32 * nTouches>>}
        \cup ({4, 8, 12, 16, 24} \X (0 .. MaxProbeBytes))

InitProbe ==
    /\ pc = "tryCacheLevelSizes"
    /\ \E in \in ProbeInputs : minSizeBytes = in[1] /\ maxSizeBytes = in[2]
    /\ clockKnee \in {0, 2, 4 * KB}
    /\ hops = 0 /\ infos = <<>>
    /\ windowSize = 0 /\ diffs = <<>> /\ windowed = <<>>
    /\ ret = Null /\ ub = ""
    /\ IdleBuf /\ IdleLine

\* minSize = minSizeBytes / sizeof(void*); the loop starts at size = minSize
ProbeEnter ==
    /\ pc = "tryCacheLevelSizes"
    /\ size' = minSizeBytes \div WordSize
    /\ pc' = "probe_loop"
    /\ UNCHANGED <<step, buffer, touches, pos, ret, probeVars, selectVars, lineVars, ub>>

\* lines 59-62: the loop test, the stride, and the call of mkTestBuffer, whose
\* assertion fails on a size of 0
ProbeBuild ==
    /\ pc = "probe_loop"
    /\ ProbeContinues(size, maxSizeBytes \div WordSize)
    /\ step' = ProbeStride(size)
    /\ pc' = IF size > 0 /\ step' > 0 THEN "probe_touch" ELSE "assert_fail"
    /\ UNCHANGED <<size, buffer, touches, pos, ret, probeVars, selectVars, lineVars, ub>>

\* lines 64-74: the warm-up pass, the timed pass of nTouches hops each, the
\* record, and the loop's size += sizeStep
ProbeMeasure ==
    /\ pc = "probe_touch"
    /\ IF ChainDegenerate(size, step)
       THEN /\ ub' = "null_deref" /\ pc' = "fault"
            /\ UNCHANGED <<size, hops, infos>>
       ELSE /\ hops' = nTouches
            /\ infos' = Append(infos, RawLevelInfo(size * WordSize, Clock(size, clockKnee)))
            /\ size' = size + minSizeBytes \div WordSize
            /\ pc' = "probe_loop"
            /\ UNCHANGED ub
    /\ UNCHANGED <<step, buffer, touches, pos, ret, minSizeBytes, maxSizeBytes, clockKnee,
                   windowSize, diffs, windowed, lineVars>>

\* return infos;
ProbeReturn ==
    /\ pc = "probe_loop"
    /\ ~ProbeContinues(size, maxSizeBytes \div WordSize)
    /\ pc' = "done"
    /\ UNCHANGED <<size, step, buffer, touches, pos, ret, probeVars, selectVars, lineVars, ub>>

NextProbe == ProbeEnter \/ ProbeBuild \/ ProbeMeasure \/ ProbeReturn

SpecProbe == InitProbe /\ [][NextProbe]_vars

----------------------------------------------------------------------------
(* Claims about probing                                                    *)

MainCall == minSizeBytes = 8 * KB /\ maxSizeBytes = 256 * KB

\* the records are the multiples of minSizeBytes in [minSizeBytes, maxSizeBytes],
\* in increasing order
OnePerMultiple ==
    /\ Len(infos) = maxSizeBytes \div minSizeBytes
    /\ \A k \in 1 .. Len(infos) : infos[k].arraySizeBytes = k * minSizeBytes

\* C2 as stated: tryCacheLevelSizes(8 KiB, 256 KiB) returns 33 records, one per
\* multiple of 8 KiB from 8 KiB to 256 KiB, in increasing order.
C2_ThirtyThree ==
    (pc = "done" /\ MainCall) => (Len(infos) = 33 /\ OnePerMultiple)

\* C2 amended: tryCacheLevelSizes(8 KiB, 256 KiB) returns 32 records, one per
\* multiple of 8 KiB from 8 KiB to 256 KiB, in increasing order; and for every
\* minSizeBytes that is a multiple of the word size and at least two words the
\* call returns, with one record per multiple of minSizeBytes in range.
C2_ThirtyTwo ==
    /\ (pc = "done" /\ MainCall) => (Len(infos) = 32 /\ OnePerMultiple)
    /\ (minSizeBytes % WordSize = 0 /\ minSizeBytes >= 2 * WordSize) =>
          /\ pc \notin {"fault", "assert_fail"}
          /\ pc = "done" => OnePerMultiple

\* main's call has returned, the last record being that of 256 KiB
C2_Witness ==
    /\ pc = "done" /\ MainCall
    /\ Len(infos) > 0 /\ infos[Len(infos)].arraySizeBytes = 256 * KB

\* C8: every stride handed to mkTestBuffer by tryCacheLevelSizes (slot count
\* >= 1) is max(1, slotCount / 1000000) and lies in 1 .. slotCount, and no bulk
\* traversal performs more than 1000000 hops.
C8_StrideBounds ==
    /\ (pc \in {"probe_touch", "fault", "assert_fail"} /\ size >= 1) =>
          /\ 1 <= step /\ step <= size
          /\ step = (IF size < 2 * nTouches THEN 1 ELSE size \div nTouches)
    /\ hops <= 1000000

\* a buffer of more than 2000000 slots is about to be walked with a stride of 2
\* or more, after an earlier buffer was walked
C8_Witness == pc = "probe_touch" /\ step >= 2 /\ hops = nTouches

----------------------------------------------------------------------------
(* selectCacheSize (src/main.cpp:79-109)                                   *)

\* the mutant subtracts the wrong way round
DiffTimeReversed(prev, curr) == prev.timeNanos - curr.timeNanos

\* .timeNanos = curr.timeNanos - prev.timeNanos
DiffTime(prev, curr) == curr.timeNanos - prev.timeNanos

\* for (size_t i = 1; i < infos.size(); ++i) diffs.push_back(...)
RECURSIVE DiffLoop(_, _, _)
DiffLoop(inf, i, acc) ==
    IF i < Len(inf)
    THEN DiffLoop(inf, i + 1,
                  Append(acc, RawLevelInfo(At(inf, i).arraySizeBytes,
                                           DiffTime(At(inf, i - 1), At(inf, i)))))
    ELSE acc

Diffs(inf) == DiffLoop(inf, 1, <<>>)

\* the mutant drops one tail point instead of two
WindowBoundOne(n) == SizeSub(n, 1)

\* diffs.size() - 2, in size_t
WindowBound(n) == SizeSub(n, 2)

\* auto sum = diffs[i].timeNanos;
\* for (size_t j = i + 1 - windowSize; j < i; ++j) sum += diffs[j].timeNanos;
RECURSIVE SumLoop(_, _, _, _)
SumLoop(d, j, i, sum) ==
    IF j < i THEN SumLoop(d, j + 1, i, sum + At(d, j).timeNanos) ELSE sum

WindowSum(d, i, w) == SumLoop(d, SizeSub(i + 1, w), i, At(d, i).timeNanos)

\* for (size_t i = windowSize - 1; i < diffs.size() - 2; ++i) windowed.push_back(...)
\* The walk stops at the first diffs[i] with i outside [0, diffs.size()).
RECURSIVE WindowLoop(_, _, _, _)
WindowLoop(d, w, i, acc) ==
    IF i < WindowBound(Len(d))
    THEN IF i >= Len(d)
         THEN [windowed |-> acc, oob |-> TRUE]
         ELSE WindowLoop(d, w, i + 1,
                         Append(acc, RawLevelInfo(At(d, i).arraySizeBytes, WindowSum(d, i, w))))
    ELSE [windowed |-> acc, oob |-> FALSE]

\* the mutant's comparison is <=, which keeps the last of equal maxima
RECURSIVE MaxLoopLast(_, _, _)
MaxLoopLast(v, k, best) ==
    IF k < Len(v)
    THEN MaxLoopLast(v, k + 1, IF At(v, best).timeNanos <= At(v, k).timeNanos THEN k ELSE best)
    ELSE best

\* std::max_element with comp(x, y) = x.timeNanos < y.timeNanos: the first
\* element no other exceeds
RECURSIVE MaxLoop(_, _, _)
MaxLoop(v, k, best) ==
    IF k < Len(v)
    THEN MaxLoop(v, k + 1, IF At(v, best).timeNanos < At(v, k).timeNanos THEN k ELSE best)
    ELSE best

\* bounds of the inputs
MaxInfos == 7
MaxWindow == 3

\* consecutive timing differences of the input series
DeltaVals == {-1, 1, 3}

\* a series as tryCacheLevelSizes builds one: record k is for k * 8 KiB
InfosOf(n, ds) ==
    LET t[k \in 1 .. n] == IF k = 1 THEN 10 ELSE t[k - 1] + ds[k - 1]
    IN  [k \in 1 .. n |-> RawLevelInfo(k * 8 * KB, t[k])]

\* what reading *end() of an empty vector with reserved storage can yield
GarbageBytes == {0, 8 * KB, 12345}

InitSelect ==
    /\ pc = "selectCacheSize"
    /\ \E n \in 0 .. MaxInfos : \E ds \in [1 .. n - 1 -> DeltaVals] : infos = InfosOf(n, ds)
    /\ windowSize \in 2 .. MaxWindow
    /\ diffs = <<>> /\ windowed = <<>>
    /\ ret = Null /\ ub = ""
    /\ IdleBuf /\ IdleProbe /\ IdleLine

\* lines 81-91
SelectDiff ==
    /\ pc = "selectCacheSize"
    /\ diffs' = Diffs(infos)
    /\ pc' = "window"
    /\ UNCHANGED <<size, step, buffer, touches, pos, ret, probeVars, infos, windowSize,
                   windowed, lineVars, ub>>

\* lines 92-104
SelectWindow ==
    /\ pc = "window"
    /\ LET r == WindowLoop(diffs, windowSize, windowSize - 1, <<>>) IN
        /\ windowed' = r.windowed
        /\ IF r.oob THEN ub' = "oob_read" /\ pc' = "fault"
                    ELSE pc' = "max" /\ UNCHANGED ub
    /\ UNCHANGED <<size, step, buffer, touches, pos, ret, probeVars, infos, windowSize,
                   diffs, lineVars>>

\* lines 105-108.  On an empty windowed series max_element returns end():
\* windowed.reserve(diffs.size() / 3) left it without storage (a null end()) or
\* with uninitialised storage, which the -> then reads.
SelectMax ==
    /\ pc = "max"
    /\ IF windowed # <<>>
       THEN /\ ret' = At(windowed, MaxLoop(windowed, 1, 0)).arraySizeBytes
            /\ pc' = "done" /\ UNCHANGED ub
       ELSE IF Len(diffs) \div 3 = 0
       THEN /\ ub' = "null_deref" /\ pc' = "fault" /\ UNCHANGED ret
       ELSE /\ ub' = "end_deref" /\ pc' = "done" /\ ret' \in GarbageBytes
    /\ UNCHANGED <<size, step, buffer, touches, pos, probeVars, selectVars, lineVars>>

NextSelect == SelectDiff \/ SelectWindow \/ SelectMax

SpecSelect == InitSelect /\ [][NextSelect]_vars

----------------------------------------------------------------------------
(* Claims about selectCacheSize                                            *)

\* sum of the windowSize consecutive differences that end at record k of the
\* input (1-based): they telescope to a difference of two timings
WinAt(k) == infos[k].timeNanos - infos[k - windowSize].timeNanos

\* records at which a kept window ends: the first window ends at record
\* windowSize+1, and the windows ending at the last two records are discarded
KeptEnds == windowSize + 1 .. Len(infos) - 2

Windowed == pc \in {"max", "done", "fault"}

\* C3: when the windowed series is non-empty, selectCacheSize returns the
\* arraySizeBytes of the earliest record at which a kept window of windowSize
\* consecutive differences has the maximum sum; the result is the arraySizeBytes
\* of an input record.
C3_SelectsMaxWindow ==
    KeptEnds # {} =>
        /\ pc # "fault" /\ ub = ""
        /\ pc = "done" =>
              /\ \E k \in KeptEnds :
                    /\ ret = infos[k].arraySizeBytes
                    /\ \A m \in KeptEnds : WinAt(m) <= WinAt(k)
                    /\ \A m \in KeptEnds : m < k => WinAt(m) < WinAt(k)
              /\ \E k \in 1 .. Len(infos) : ret = infos[k].arraySizeBytes

\* the maximum windowed sum occurs at two records, and the earlier one, which is
\* not the first kept one, is returned
C3_Witness ==
    /\ pc = "done" /\ ub = ""
    /\ \E k, m \in KeptEnds :
          /\ windowSize + 1 < k /\ k < m /\ WinAt(k) = WinAt(m)
          /\ \A q \in KeptEnds : WinAt(q) <= WinAt(k)
          /\ ret = infos[k].arraySizeBytes

StrictlyIncreasing ==
    \A k \in 1 .. Len(infos) - 1 : infos[k].timeNanos < infos[k + 1].timeNanos

\* each increase of the timings is at least as large as the one before it
IncreasesNonDecreasing ==
    \A k \in 2 .. Len(infos) - 1 :
        infos[k].timeNanos - infos[k - 1].timeNanos
            <= infos[k + 1].timeNanos - infos[k].timeNanos

WindowedNonDecreasing ==
    \A k \in 1 .. Len(windowed) - 1 : windowed[k].timeNanos <= windowed[k + 1].timeNanos

\* C4 as stated: for strictly increasing timings (and at least two windowed
\* points) the windowed sums are non-decreasing.
C4_IncreasingGivesMonotone ==
    (Windowed /\ StrictlyIncreasing /\ Len(windowed) >= 2) => WindowedNonDecreasing

\* C4 amended: for strictly increasing timings whose successive increases are
\* themselves non-decreasing (and at least two windowed points) the windowed
\* sums are non-decreasing.
C4_ConvexGivesMonotone ==
    (Windowed /\ StrictlyIncreasing /\ IncreasesNonDecreasing /\ Len(windowed) >= 2)
        => WindowedNonDecreasing

\* such a series, with a windowed sum that grows
C4_Witness ==
    /\ pc = "max" /\ StrictlyIncreasing /\ IncreasesNonDecreasing
    /\ Len(windowed) >= 2
    /\ windowed[1].timeNanos < windowed[Len(windowed)].timeNanos

\* C7 as stated: the windowed series is empty only for fewer than windowSize+2
\* raw points.
C7_EmptyBelowWPlus2 ==
    (Windowed /\ windowed = <<>>) => Len(infos) < windowSize + 2

\* C7 amended: the windowed series is empty only for fewer than windowSize+3
\* raw points; with n >= windowSize+3 raw points it has n-windowSize-2 elements
\* (at least one), and the maximum is taken over them.
C7_EmptyBelowWPlus3 ==
    Windowed =>
        /\ windowed = <<>> => Len(infos) < windowSize + 3
        /\ Len(infos) >= windowSize + 3 =>
              /\ Len(windowed) = Len(infos) - windowSize - 2
              /\ ub = "" /\ pc # "fault"

\* the shortest input with a windowed point
C7_Witness ==
    /\ pc = "done" /\ ub = ""
    /\ Len(infos) = windowSize + 3 /\ Len(windowed) = 1

\* C10: the windowing loop reads diffs only at indices in [0, diffs.size()),
\* for every input, those of 0, 1 or 2 records included.
C10_ReadsInRange ==
    Windowed => ub # "oob_read"

----------------------------------------------------------------------------
(* touchTestBufferTimed (src/main.cpp:34-46), calcCacheLineSize (111-132)  *)

\* The durations the clock reports for the n hops of one traversal, from a
\* synthetic clock whose largest jump between consecutive hops is jmp: hops
\* alternate between 0 and jmp (jmp >= 0), or get faster by -jmp per hop
\* (jmp < 0).  One duration is pushed per hop.
SynthTimes(n, jmp) ==
    [k \in 1 .. n |-> IF jmp >= 0 THEN (IF k % 2 = 0 THEN jmp ELSE 0)
                                  ELSE (n - k) * (-jmp)]

\* for (auto it = times.begin() + 1; it != times.end(); ++it)
\*     diffs.push_back(*it - *(it - 1));
RECURSIVE JumpLoop(_, _, _)
JumpLoop(ts, it, acc) ==
    IF it # Len(ts)
    THEN JumpLoop(ts, it + 1, Append(acc, At(ts, it) - At(ts, it - 1)))
    ELSE acc

JumpDiffs(ts) == JumpLoop(ts, 1, <<>>)

\* *std::max_element(diffs.begin(), diffs.end()) on a non-empty diffs
RECURSIVE MaxJumpLoop(_, _, _)
MaxJumpLoop(d, k, best) ==
    IF k < Len(d)
    THEN MaxJumpLoop(d, k + 1, IF At(d, best) < At(d, k) THEN k ELSE best)
    ELSE best

MaxJump(d) == At(d, MaxJumpLoop(d, 1, 0))

\* lastMaxJump != max() && max < lastMaxJump / 10
Dropped(last, max) == last # LLongMax /\ max < CDiv(last, 10)

\* largest slot count of the cache sizes tried
MaxSlots == 17

\* largest jumps of the synthetic clock
JumpVals == {-4, 0, 5, 50, 600}

\* what reading *end() of an empty diffs can yield: diffs.reserve(times.size())
\* gave it uninitialised storage for one element
GarbageJumps == {-3, 0, 700}

InitLine ==
    /\ pc = "calcCacheLineSize"
    /\ cacheSizeBytes \in {WordSize * k : k \in 0 .. MaxSlots}
    /\ lastMaxJump = 0 /\ times = <<>> /\ tried = <<>> /\ maxJumps = <<>>
    /\ diffs = <<>> /\ infos = <<>> /\ windowSize = 0 /\ windowed = <<>>
    /\ ret = Null /\ ub = ""
    /\ IdleBuf /\ IdleProbe

\* lines 112-115: size, lastMaxJump, step = 1
LineEnter ==
    /\ pc = "calcCacheLineSize"
    /\ size' = cacheSizeBytes \div WordSize
    /\ lastMaxJump' = LLongMax
    /\ step' = 1
    /\ pc' = "line_loop"
    /\ UNCHANGED <<buffer, touches, pos, ret, probeVars, selectVars, cacheSizeBytes,
                   times, tried, maxJumps, ub>>

\* lines 115-130: one iteration of the loop
LineIter ==
    /\ pc = "line_loop"
    /\ step < size
    /\ \E jmp \in JumpVals, garbage \in GarbageJumps :
        LET buf == MkTestBuffer(size, step)
            n == size \div step
            p == TouchPos(buf, n)
            ts == SynthTimes(n, jmp)
            d == JumpDiffs(ts)
            max == IF d = <<>> THEN garbage ELSE MaxJump(d)
        IN  /\ buffer' = buf /\ touches' = n /\ pos' = p
            /\ times' = ts /\ diffs' = d
            /\ tried' = Append(tried, step)
            /\ IF p = Null
               THEN /\ ub' = "null_deref" /\ pc' = "fault"
                    /\ UNCHANGED <<ret, lastMaxJump, step, maxJumps>>
               ELSE /\ ub' = IF d = <<>> THEN "end_deref" ELSE ub
                    /\ maxJumps' = Append(maxJumps, max)
                    /\ IF Dropped(lastMaxJump, max)
                       THEN /\ ret' = step * WordSize /\ pc' = "done"
                            /\ UNCHANGED <<lastMaxJump, step>>
                       ELSE /\ lastMaxJump' = max /\ step' = step * 2
                            /\ pc' = "line_loop" /\ UNCHANGED ret
    /\ UNCHANGED <<size, probeVars, infos, windowSize, windowed, cacheSizeBytes>>

\* line 131: the loop has run out; return step * sizeof(void*)
LineExit ==
    /\ pc = "line_loop"
    /\ ~(step < size)
    /\ ret' = step * WordSize
    /\ pc' = "done"
    /\ UNCHANGED <<size, step, buffer, touches, pos, probeVars, selectVars, lineVars, ub>>

NextLine == LineEnter \/ LineIter \/ LineExit

SpecLine == InitLine /\ [][NextLine]_vars

----------------------------------------------------------------------------
(* Claims about calcCacheLineSize                                          *)

\* no maximum jump is below a tenth of the one before it
NoTenfoldDrop(js) == \A k \in 2 .. Len(js) : 10 * js[k] >= js[k - 1]

\* C5: when the maximum jump is positive at strides of 1, 2 and 4 slots with no
\* tenfold drop between them and is zero at 8 slots (64 bytes), calcCacheLineSize
\* on a buffer of more than 8 slots returns 64.
C5_ZeroAtSixtyFour ==
    ( /\ pc = "done" /\ ub = "" /\ size > 8 /\ Len(maxJumps) >= 4
      /\ \A k \in 1 .. 3 : maxJumps[k] > 0
      /\ NoTenfoldDrop(SubSeq(maxJumps, 1, 3))
      /\ maxJumps[4] = 0 )
        => ret = 64

\* C6: when no stride's maximum jump falls below a tenth of the previous one,
\* calcCacheLineSize returns the last stride it built and walked a buffer for,
\* in bytes.
C6_ReturnsLastTried ==
    (pc = "done" /\ ub = "" /\ tried # <<>> /\ NoTenfoldDrop(maxJumps))
        => ret = tried[Len(tried)] * WordSize

\* C9: every executed iteration of calcCacheLineSize times at least two hops,
\* so its differenced series is non-empty and the maximum is read from it.
C9_TwoSamples ==
    tried # <<>> => (Len(times) >= 2 /\ diffs # <<>> /\ ub # "end_deref")

====
